---- MODULE Spec2Model ----
(***************************************************************************)
(* Model of the jsonPTS protocol client (Pts2Client), its envelope codec   *)
(* (buildEnvelope / parseEnvelope) and its Digest handshake.               *)
(*                                                                         *)
(* Conventions                                                             *)
(*  - a JS string is a tuple of one-character strings;                     *)
(*  - a JS number is an integer count of halves (h = 2 * value), so that   *)
(*    the non-integral number 1.5 (h = 3) is representable;                *)
(*  - a loosely typed JSON value is a record [t, b, h, s, a, o] whose tag  *)
(*    t is one of "undef" (the property is absent), "null", "bool", "num", *)
(*    "str", "arr", "obj"; a holds the items of an array and o the         *)
(*    properties of an object, as [k, v] pairs.                            *)
(***************************************************************************)
EXTENDS Integers, Sequences, FiniteSets, TLC

\* ------------------------------------------------------------------ bounds
\* number of execute / sendJsonPtsEnvelope calls made on the one Client
MaxCalls == 2
\* longest request batch handed to execute
MaxPackets == 2
\* longest Packets array of a device response in the codec specification
MaxRespPackets == 3
\* largest nonce-count handed to buildDigestAuthorization on its own
MaxNc == 17
\* number of Clients the REST server constructs
MaxClients == 3
\* largest nonce-count a Client of the REST server reaches
MaxServerNc == 2

\* --------------------------------------------------------- JSON values
JUndef == [t |-> "undef", b |-> FALSE, h |-> 0, s |-> <<>>, a |-> <<>>, o |-> <<>>]
JNull == [t |-> "null", b |-> FALSE, h |-> 0, s |-> <<>>, a |-> <<>>, o |-> <<>>]
JBool(v) == [t |-> "bool", b |-> v, h |-> 0, s |-> <<>>, a |-> <<>>, o |-> <<>>]
JNum(halves) == [t |-> "num", b |-> FALSE, h |-> halves, s |-> <<>>, a |-> <<>>, o |-> <<>>]
JStr(chars) == [t |-> "str", b |-> FALSE, h |-> 0, s |-> chars, a |-> <<>>, o |-> <<>>]
JArr(items) == [t |-> "arr", b |-> FALSE, h |-> 0, s |-> <<>>, a |-> items, o |-> <<>>]
JObj(props) == [t |-> "obj", b |-> FALSE, h |-> 0, s |-> <<>>, a |-> <<>>, o |-> props]

\* one property of an object
Prop(key, value) == [k |-> key, v |-> value]

\* value.key: undefined when the value has no such property
Get(value, key) ==
    LET at == {i \in 1..Len(value.o) : value.o[i].k = key}
    IN  IF at = {} THEN JUndef ELSE value.o[CHOOSE i \in at : \A j \in at : i >= j].v

\* Boolean(value)
Truthy(value) ==
    CASE value.t \in {"undef", "null"} -> FALSE
      [] value.t = "bool" -> value.b
      [] value.t = "num" -> value.h # 0
      [] value.t = "str" -> value.s # <<>>
      [] OTHER -> TRUE

\* the number n as a count of halves
Whole(n) == 2 * n

Digits == <<"0", "1", "2", "3", "4", "5", "6", "7", "8", "9">>

IsDigit(ch) == \E d \in 1..10 : Digits[d] = ch

DigitVal(ch) == (CHOOSE d \in 1..10 : Digits[d] = ch) - 1

IsSpace(ch) == ch = " "

\* String.prototype.toLowerCase, on the letters the model uses
LowerChar(ch) ==
    CASE ch = "F" -> "f"
      [] ch = "A" -> "a"
      [] ch = "L" -> "l"
      [] ch = "S" -> "s"
      [] ch = "E" -> "e"
      [] ch = "T" -> "t"
      [] ch = "R" -> "r"
      [] ch = "U" -> "u"
      [] ch = "D" -> "d"
      [] ch = "I" -> "i"
      [] ch = "G" -> "g"
      [] ch = "O" -> "o"
      [] ch = "N" -> "n"
      [] ch = "Y" -> "y"
      [] ch = "H" -> "h"
      [] ch = "P" -> "p"
      [] ch = "B" -> "b"
      [] OTHER -> ch

ToLowerCase(str) == [i \in 1..Len(str) |-> LowerChar(str[i])]

StrTrue == <<"t", "r", "u", "e">>
StrFalse == <<"f", "a", "l", "s", "e">>
StrJsonPTS == <<"j", "s", "o", "n", "P", "T", "S">>
StrOther == <<"o", "t", "h", "e", "r">>

\* Number.parseInt(str, 10): skip leading white space, take an optional
\* sign, then the longest run of decimal digits; NaN when the run is empty.
RECURSIVE SkipSpaces(_)
SkipSpaces(str) ==
    IF str # <<>> /\ IsSpace(Head(str)) THEN SkipSpaces(Tail(str)) ELSE str

RECURSIVE DigitRun(_, _, _)
DigitRun(str, acc, seen) ==
    IF str # <<>> /\ IsDigit(Head(str))
    THEN DigitRun(Tail(str), 10 * acc + DigitVal(Head(str)), TRUE)
    ELSE [nan |-> ~seen, v |-> acc]

ParseInt(str) ==
    LET body == SkipSpaces(str)
        neg == body # <<>> /\ Head(body) = "-"
        signed == body # <<>> /\ Head(body) \in {"-", "+"}
        run == DigitRun(IF signed THEN Tail(body) ELSE body, 0, FALSE)
    IN  [nan |-> run.nan, v |-> IF neg THEN 0 - run.v ELSE run.v]

\* Number.prototype.toString() of a non-negative integer
RECURSIVE ToString10(_)
ToString10(n) ==
    IF n < 10 THEN <<Digits[n + 1]>>
    ELSE ToString10(n \div 10) \o <<Digits[(n % 10) + 1]>>

\* String(number), the number given in halves
NumToStr(halves) ==
    LET mag == IF halves < 0 THEN 0 - halves ELSE halves
    IN  (IF halves < 0 THEN <<"-">> ELSE <<>>)
        \o ToString10(mag \div 2)
        \o (IF mag % 2 = 1 THEN <<".", "5">> ELSE <<>>)

StrUndefined == <<"u", "n", "d", "e", "f", "i", "n", "e", "d">>
StrNull == <<"n", "u", "l", "l">>
StrObject ==
    <<"[", "o", "b", "j", "e", "c", "t", " ", "O", "b", "j", "e", "c", "t", "]">>

\* String(v): an array is its items joined by commas, a null or undefined
\* item giving the empty string
RECURSIVE ToStr(_)
RECURSIVE JoinItems(_)
JoinItems(items) ==
    IF items = <<>> THEN <<>>
    ELSE (IF Head(items).t \in {"undef", "null"} THEN <<>> ELSE ToStr(Head(items)))
         \o (IF Tail(items) = <<>> THEN <<>> ELSE <<",">> \o JoinItems(Tail(items)))

ToStr(v) ==
    CASE v.t = "undef" -> StrUndefined
      [] v.t = "null" -> StrNull
      [] v.t = "bool" -> (IF v.b THEN StrTrue ELSE StrFalse)
      [] v.t = "num" -> NumToStr(v.h)
      [] v.t = "str" -> v.s
      [] v.t = "arr" -> JoinItems(v.a)
      [] OTHER -> StrObject

\* String(v ?? dflt)
StringOr(v, dflt) == IF v.t \in {"undef", "null"} THEN dflt ELSE ToStr(v)

\* ------------------------------------------------------------ envelope codec
\* A request packet handed to execute is its type and its optional data.
\* buildEnvelope: Protocol "jsonPTS" and one packet per request, Id = index
buildEnvelopeOneBased(packets) ==
    [Protocol |-> StrJsonPTS,
     Packets |-> [i \in 1..Len(packets) |->
                    [Id |-> i, Type |-> packets[i].type,
                     hasData |-> packets[i].data.t # "undef",
                     Data |-> packets[i].data]]]

buildEnvelope(packets) ==
    [Protocol |-> StrJsonPTS,
     Packets |-> [i \in 1..Len(packets) |->
                    [Id |-> i - 1, Type |-> packets[i].type,
                     hasData |-> packets[i].data.t # "undef",
                     Data |-> packets[i].data]]]

\* A raw response value as postJson hands it to parseEnvelope.  isObject is
\* FALSE for a JSON value that is not an object; unauthorized is TRUE for the
\* transport's { __unauthorized, headers } sentinel, which has neither a
\* Protocol nor a Packets property.
\* hasHeaders is TRUE only for the sentinel, whose headers property is a
\* Headers object; www is then its WWW-Authenticate value.
NoWwwHeader ==
    [present |-> FALSE, word |-> <<>>, gap |-> FALSE, hasQop |-> FALSE, qop |-> <<>>]

RawEnvelope(protocol, isArray, pkts) ==
    [isObject |-> TRUE, unauthorized |-> FALSE, hasHeaders |-> FALSE,
     www |-> NoWwwHeader, Protocol |-> protocol,
     packetsIsArray |-> isArray, Packets |-> pkts]

RawPacket(id, error, data) ==
    [isRecord |-> TRUE, Id |-> id, Error |-> error, Data |-> data]

\* JsonPtsResponseSchema.parse: an object with a string Protocol and an
\* array Packets whose elements are all records
SchemaAccepts(raw) ==
    /\ raw.isObject
    /\ raw.Protocol.t = "str"
    /\ raw.packetsIsArray
    /\ \A i \in 1..Len(raw.Packets) : raw.Packets[i].isRecord

\* typeof p.Id === "number" ? p.Id : Number.parseInt(String(p.Id ?? ""), 10),
\* followed by the Number.isFinite test
DecodeId(p) ==
    IF p.Id.t = "num"
    THEN [finite |-> TRUE, id |-> p.Id.h]
    ELSE LET n == ParseInt(StringOr(p.Id, <<>>))
         IN  [finite |-> ~n.nan, id |-> Whole(n.v)]

\* typeof Error === "boolean" ? Error
\*                            : String(Error ?? "false").toLowerCase() !== "false"
DecodeError(p) ==
    IF p.Error.t = "bool" THEN p.Error.b
    ELSE ToLowerCase(StringOr(p.Error, StrFalse)) # StrFalse

DecodePacket(p) ==
    [id |-> DecodeId(p).id, error |-> DecodeError(p), data |-> p.Data]

\* packets.sort((a, b) => a.id - b.id): Array.prototype.sort is stable, so
\* the result is the one insertion from the left produces
RECURSIVE InsertById(_, _)
InsertById(sorted, p) ==
    IF sorted = <<>> THEN <<p>>
    ELSE IF Head(sorted).id - p.id <= 0
         THEN <<Head(sorted)>> \o InsertById(Tail(sorted), p)
         ELSE <<p>> \o sorted

RECURSIVE SortByIdFrom(_, _)
SortByIdFrom(done, rest) ==
    IF rest = <<>> THEN done
    ELSE SortByIdFrom(InsertById(done, Head(rest)), Tail(rest))

Unsorted(packets) == packets

SortById(packets) == SortByIdFrom(<<>>, packets)

\* the Protocol test of parseEnvelope
ProtocolMatches(protocol) == protocol.s = StrJsonPTS

\* the per-packet Id test of parseEnvelope
IdPresent(p) == DecodeId(p).finite

\* Outcome of a call: a returned value or a thrown error of class cls.
Returned(v) ==
    [status |-> "ok", cls |-> "", what |-> "", sent |-> 0, got |-> 0,
     index |-> 0, value |-> v]

Thrown(c, w) ==
    [status |-> "thrown", cls |-> c, what |-> w, sent |-> 0, got |-> 0,
     index |-> 0, value |-> <<>>]

parseEnvelope(raw) ==
    IF ~SchemaAccepts(raw) THEN Thrown("ZodError", "schema")
    ELSE IF ~ProtocolMatches(raw.Protocol) THEN Thrown("Error", "Protocol mismatch")
    ELSE IF \E i \in 1..Len(raw.Packets) : ~IdPresent(raw.Packets[i])
         THEN Thrown("Error", "Response packet missing Id")
    ELSE Returned(SortById([i \in 1..Len(raw.Packets) |-> DecodePacket(raw.Packets[i])]))


\* ------------------------------------------------------------------ execute
\* parsed.length !== packets.length
CountTooFew(parsed, packets) == Len(parsed) < Len(packets)

CountMismatch(parsed, packets) == Len(parsed) # Len(packets)

\* the indices i with parsed[i].id !== i (zero-based i, ids in halves)
IdMismatches(parsed) == {i \in 1..Len(parsed) : parsed[i].id # Whole(i - 1)}

\* parsed.find((p) => p.error): the index of the first packet with error
LastError(parsed) ==
    LET bad == {i \in 1..Len(parsed) : parsed[i].error}
    IN  IF bad = {} THEN 0 ELSE CHOOSE i \in bad : \A j \in bad : i >= j

FirstError(parsed) ==
    LET bad == {i \in 1..Len(parsed) : parsed[i].error}
    IN  IF bad = {} THEN 0 ELSE CHOOSE i \in bad : \A j \in bad : i <= j

\* execute, from the value postWithAuth returned to its own return or throw
correlateErrorFirst(packets, raw) ==
    LET dec == parseEnvelope(raw)
        parsed == dec.value
        wrong == IdMismatches(parsed)
        at == CHOOSE i \in wrong : \A j \in wrong : i <= j
        fe == FirstError(parsed)
    IN  IF dec.status # "ok" THEN dec
        ELSE IF fe # 0
             THEN [Thrown("JsonPtsPacketError", "PTS packet error")
                     EXCEPT !.value = parsed[fe]]
        ELSE IF CountMismatch(parsed, packets)
             THEN [Thrown("Error", "Packet count mismatch")
                     EXCEPT !.sent = Len(packets), !.got = Len(parsed)]
        ELSE IF wrong # {}
             THEN [Thrown("Error", "Packet id mismatch")
                     EXCEPT !.index = at - 1, !.got = parsed[at].id]
        ELSE Returned(parsed)

correlate(packets, raw) ==
    LET dec == parseEnvelope(raw)
        parsed == dec.value
        wrong == IdMismatches(parsed)
        at == CHOOSE i \in wrong : \A j \in wrong : i <= j
        fe == FirstError(parsed)
    IN  IF dec.status # "ok" THEN dec
        ELSE IF CountMismatch(parsed, packets)
             THEN [Thrown("Error", "Packet count mismatch")
                     EXCEPT !.sent = Len(packets), !.got = Len(parsed)]
        ELSE IF wrong # {}
             THEN [Thrown("Error", "Packet id mismatch")
                     EXCEPT !.index = at - 1, !.got = parsed[at].id]
        ELSE IF fe # 0
             THEN [Thrown("JsonPtsPacketError", "PTS packet error")
                     EXCEPT !.value = parsed[fe]]
        ELSE Returned(parsed)


\* -------------------------------------------------------- Digest handshake
HexDigits ==
    <<"0", "1", "2", "3", "4", "5", "6", "7", "8", "9", "a", "b", "c", "d", "e", "f">>

\* Number.prototype.toString(16) of a non-negative integer
RECURSIVE ToString16(_)
ToString16(n) ==
    IF n < 16 THEN <<HexDigits[n + 1]>>
    ELSE ToString16(n \div 16) \o <<HexDigits[(n % 16) + 1]>>

\* String.prototype.padStart(len, ch)
RECURSIVE PadStart(_, _, _)
PadStart(str, len, ch) ==
    IF Len(str) >= len THEN str ELSE PadStart(<<ch>> \o str, len, ch)

\* A WWW-Authenticate header value: the leading word, whether white space
\* follows it, and the qop attribute as its comma-separated pieces
\* (hasQop = FALSE when the attribute is missing).
StrDigest == <<"D", "i", "g", "e", "s", "t">>
StrDigestUpper == <<"D", "I", "G", "E", "S", "T">>
StrBasic == <<"B", "a", "s", "i", "c">>

WwwHeader(word, gap, hasQop, qop) ==
    [present |-> TRUE, word |-> word, gap |-> gap, hasQop |-> hasQop, qop |-> qop]

\* hdrs.get("www-authenticate") is null or the empty string
HeaderMissing(www) == ~www.present \/ (www.word = <<>> /\ ~www.gap)

\* wwwAuthenticate.match(/^\s*Digest\s+(.*)$/i)
AnyChallenge(www) == TRUE

IsDigestChallenge(www) == ToLowerCase(www.word) = ToLowerCase(StrDigest) /\ www.gap

\* parseDigestChallenge, for a header that matched: the attributes
parseDigestChallenge(www) == [hasQop |-> www.hasQop, qop |-> www.qop]

\* pickQop: "" when no qop is selected
pickQopFirst(challenge) ==
    LET parts == SelectSeq(challenge.qop, LAMBDA tok : tok # "")
    IN  IF ~challenge.hasQop \/ challenge.qop = <<"">> THEN ""
        ELSE IF parts = <<>> THEN ""
        ELSE parts[1]

pickQop(challenge) ==
    LET parts == SelectSeq(challenge.qop, LAMBDA tok : tok # "")
    IN  IF ~challenge.hasQop \/ challenge.qop = <<"">> THEN ""
        ELSE IF \E i \in 1..Len(parts) : parts[i] = "auth" THEN "auth"
        ELSE IF parts = <<>> THEN ""
        ELSE parts[1]

\* params.nc.toString(16).padStart(8, "0")
ncStrUnpadded(nc) == ToString16(nc)

ncStr(nc) == PadStart(ToString16(nc), 8, "0")

\* The string the response digest is the hash of: its colon-separated parts
\* by name, with the nc and qop strings that went into it
NoResponse == [parts |-> <<>>, nc |-> <<>>, qop |-> ""]

NoAuthorization ==
    [scheme |-> "none", qop |-> "", nc |-> <<>>, cnonce |-> FALSE, ncArg |-> 0,
     response |-> NoResponse]

\* basicAuthHeader
basicAuthHeader ==
    [scheme |-> "Basic", qop |-> "", nc |-> <<>>, cnonce |-> FALSE, ncArg |-> 0,
     response |-> NoResponse]

\* hash(`${ha1}:${nonce}:${ncStr}:${cnonce}:${qop}:${ha2}`) when a qop is
\* selected, hash(`${ha1}:${nonce}:${ha2}`) otherwise
DigestResponse(qop, nc) ==
    IF qop # ""
    THEN [parts |-> <<"ha1", "nonce", "nc", "cnonce", "qop", "ha2">>,
          nc |-> ncStr(nc), qop |-> qop]
    ELSE [parts |-> <<"ha1", "nonce", "ha2">>, nc |-> <<>>, qop |-> ""]

\* buildDigestAuthorization: the qop, nc and cnonce fields are emitted only
\* when a qop is selected; ncArg is the nc argument the header was built from
buildDigestAuthorization(challenge, nc) ==
    LET qop == pickQop(challenge)
    IN  [scheme |-> "Digest", qop |-> qop,
         nc |-> IF qop # "" THEN ncStr(nc) ELSE <<>>,
         cnonce |-> qop # "", ncArg |-> nc,
         response |-> DigestResponse(qop, nc)]

\* this.digestNc += 1
KeepNc(nc) == nc

ResetNc(nc) == 1

NextNc(nc) == nc + 1

\* ---------------------------------------------------------------- transport
\* What fetch can reject with: the error's name and its (cause's) code
FetchErrors ==
    {[name |-> "AbortError", code |-> ""],
     [name |-> "TypeError", code |-> "ETIMEDOUT"],
     [name |-> "TypeError", code |-> "ECONNREFUSED"]}

\* the catch block of postJson
classify(err) ==
    IF \/ err.name = "AbortError"
       \/ err.code \in {"UND_ERR_ABORTED", "ETIMEDOUT", "ESOCKETTIMEDOUT"}
    THEN "timeout" ELSE "network"

\* throw new Pts2TransportError({ kind, ..., cause: err })
Pts2TransportError(err) ==
    [Thrown("Pts2TransportError", classify(err)) EXCEPT !.value = err]

\* return { __unauthorized: true, headers: res.headers }
Sentinel(www) ==
    [isObject |-> TRUE, unauthorized |-> TRUE, hasHeaders |-> TRUE, www |-> www,
     Protocol |-> JUndef, packetsIsArray |-> FALSE, Packets |-> <<>>]

\* ------------------------------------------------------------ configuration
\* An environment variable: unset, or set to a string
Unset == [set |-> FALSE, v |-> <<>>]

Var(chars) == [set |-> TRUE, v |-> chars]

\* env.X ?? dflt
EnvOr(var, dflt) == IF var.set THEN var.v ELSE dflt

\* String.prototype.trim
RECURSIVE TrimEnd(_)
TrimEnd(str) ==
    IF str # <<>> /\ IsSpace(str[Len(str)]) THEN TrimEnd(SubSeq(str, 1, Len(str) - 1))
    ELSE str

Trim(str) == TrimEnd(SkipSpaces(str))

TrueWords ==
    {<<"1">>, <<"t", "r", "u", "e">>, <<"y", "e", "s">>, <<"y">>, <<"o", "n">>}

FalseWords ==
    {<<"0">>, <<"f", "a", "l", "s", "e">>, <<"n", "o">>, <<"n">>, <<"o", "f", "f">>}

parseBool(var, fallback) ==
    LET norm == ToLowerCase(Trim(var.v))
    IN  IF ~var.set THEN fallback
        ELSE IF norm \in TrueWords THEN TRUE
        ELSE IF norm \in FalseWords THEN FALSE
        ELSE fallback

parseIntOr(var, fallback) ==
    LET n == ParseInt(var.v)
    IN  IF ~var.set \/ var.v = <<>> THEN fallback
        ELSE IF n.nan THEN fallback ELSE n.v

StrHttp == <<"h", "t", "t", "p">>
StrHttps == <<"h", "t", "t", "p", "s">>
StrBasicLower == <<"b", "a", "s", "i", "c">>
StrDigestWord == <<"d", "i", "g", "e", "s", "t">>

\* the object loadPts2ConfigFromEnv hands to Pts2ConfigSchema.parse
RawConfig(e) ==
    [host |-> EnvOr(e.PTS2_HOST, <<>>),
     security |-> ToLowerCase(EnvOr(e.PTS2_SECURITY, StrHttps)),
     httpPort |-> parseIntOr(e.PTS2_HTTP_PORT, 80),
     httpsPort |-> parseIntOr(e.PTS2_HTTPS_PORT, 443),
     auth |-> ToLowerCase(EnvOr(e.PTS2_AUTH, StrDigestWord)),
     login |-> EnvOr(e.PTS2_LOGIN, <<>>),
     password |-> EnvOr(e.PTS2_PASSWORD, <<>>),
     timeoutMs |-> parseIntOr(e.PTS2_TIMEOUT_MS, 15000),
     tlsInsecure |-> parseBool(e.PTS2_TLS_INSECURE, TRUE)]

\* Pts2ConfigSchema
ConfigSchemaAccepts(c) ==
    /\ Len(c.host) >= 1
    /\ c.security \in {StrHttp, StrHttps}
    /\ c.httpPort > 0
    /\ c.httpsPort > 0
    /\ c.auth \in {StrBasicLower, StrDigestWord}
    /\ c.timeoutMs > 0

\* a parsed Pts2Config; the two enums are kept as their names
Pts2Config(c) ==
    [c EXCEPT !.security = IF c.security = StrHttps THEN "https" ELSE "http",
              !.auth = IF c.auth = StrBasicLower THEN "basic" ELSE "digest"]

loadPts2ConfigFromEnv(e) ==
    IF ConfigSchemaAccepts(RawConfig(e)) THEN Returned(Pts2Config(RawConfig(e)))
    ELSE Thrown("ZodError", "config")

\* The dispatcher the constructor gives the Client: an Agent that does not
\* validate certificates, or none (the default dispatcher validates)
Dispatcher(config) ==
    IF config.security = "https" /\ config.tlsInsecure THEN "insecure" ELSE "default"

NoEnv ==
    [PTS2_HOST |-> Unset, PTS2_SECURITY |-> Unset, PTS2_HTTP_PORT |-> Unset,
     PTS2_HTTPS_PORT |-> Unset, PTS2_AUTH |-> Unset, PTS2_LOGIN |-> Unset,
     PTS2_PASSWORD |-> Unset, PTS2_TIMEOUT_MS |-> Unset, PTS2_TLS_INSECURE |-> Unset]

\* ------------------------------------------------------- client: inputs
\* The environments the Client of the concurrent specification is built from
ClientEnvs ==
    {[NoEnv EXCEPT !.PTS2_HOST = Var(<<"h">>), !.PTS2_LOGIN = Var(<<"u">>),
                   !.PTS2_PASSWORD = Var(<<"p">>), !.PTS2_AUTH = auth,
                   !.PTS2_TLS_INSECURE = Var(<<"0">>)] :
        auth \in {Var(StrBasicLower), Var(StrDigestWord)}}

ClientConfigs == {loadPts2ConfigFromEnv(e).value : e \in ClientEnvs}

\* What the callers of the concurrent specification pass to execute
GetDateTimeOnly == <<[type |-> "GetDateTime", data |-> JUndef]>>

ClientRequests == {GetDateTimeOnly}

\* What they pass to sendJsonPtsEnvelope
ClientEnvelopes == {buildEnvelope(<<[type |-> "GetPumpsConfiguration", data |-> JUndef]>>)}

\* A device answer with n packets in id order, packet errAt (1-based)
\* flagged as an error, none when errAt = 0
WellFormed(n, errAt) ==
    RawEnvelope(JStr(StrJsonPTS), TRUE,
                [i \in 1..n |-> RawPacket(JNum(Whole(i - 1)), JBool(i = errAt), JUndef)])

\* A JSON answer that happens to have a truthy __unauthorized property
UnauthorizedLike ==
    [RawEnvelope(JUndef, FALSE, <<>>) EXCEPT !.unauthorized = TRUE]

\* The JSON bodies the device answers with in the concurrent specification
ClientBodies ==
    {WellFormed(1, 0), WellFormed(1, 1), UnauthorizedLike}

\* A JSON answer that is not an object (null, a number, a string)
NonObject == [RawEnvelope(JUndef, FALSE, <<>>) EXCEPT !.isObject = FALSE]

\* The WWW-Authenticate values the device answers a 401 with
ClientChallenges ==
    {NoWwwHeader,
     WwwHeader(StrBasic, TRUE, FALSE, <<>>),
     WwwHeader(StrDigest, TRUE, TRUE, <<"auth">>),
     WwwHeader(StrDigestUpper, TRUE, FALSE, <<>>)}

\* ------------------------------------------------------------ client: state
VARIABLES
    cfg,        \* the Pts2Config the Client was constructed with
    dispatcher, \* Pts2Client.dispatcher: "insecure" or "default"
    digestNc,   \* Pts2Client.digestNc
    pc,         \* per call: "idle", "fetch" (awaiting fetch), "text"
                \* (awaiting res.text()) or "done"
    call,       \* per call in flight: its arguments and locals
    posts,      \* per call in flight: the Authorization header and the body
                \* of each POST it issued so far, in order
    answers,    \* per call in flight: what postJson returned or threw for each
                \* POST that has settled, in order
    ncLog,      \* the nc argument of every buildDigestAuthorization call of
                \* the instance, in order
    last,       \* the call that ended most recently, as its caller and the
                \* device saw it: arguments, POSTs, their answers, and what
                \* it returned or threw
    raw,        \* codec specification: the device answer being decoded
    req,        \* codec specification: the request batch of the call
    decoded,    \* codec specification: what parseEnvelope produced
    outcome,    \* codec specification: what execute produced
    step,       \* codec specification: "start", "decoded" or "executed"
    op,         \* operations specification: the operation and its inputs
    opResult,   \* operations specification: what the operation produced
    opStep,     \* operations specification: "start" or "done"
    env,        \* configuration specification: the process environment
    loaded,     \* configuration specification: what loadPts2ConfigFromEnv
                \* returned or threw
    bootStep,   \* configuration specification: "start", "loaded" or
                \* "constructed"
    override,   \* REST server: pts2-config.override.json, unset or the host in it
    cachedClient,    \* REST server: the index in clients of the cached Client, 0 if undefined
    cachedClientKey, \* REST server: JSON.stringify of the configuration it was built from
    clients,    \* REST server: every Pts2Client constructed so far, its cfg and digestNc
    served,     \* REST server: what the latest getClient call returned or threw, and
                \* what the call before it returned
    steady      \* REST server: the effective configuration has been the same ever
                \* since the latest getClient call

vars ==
    <<cfg, dispatcher, digestNc, pc, call, posts, answers, ncLog, last,
      raw, req, decoded, outcome, step, op, opResult, opStep, env, loaded, bootStep,
      override, cachedClient, cachedClientKey, clients, served, steady>>

clientVars == <<cfg, dispatcher, digestNc, pc, call, posts, answers, ncLog, last>>

codecVars == <<raw, req, decoded, outcome, step>>

opVars == <<op, opResult, opStep>>

bootVars == <<env, loaded, bootStep>>

serverVars == <<override, cachedClient, cachedClientKey, clients, served, steady>>

Calls == 1..MaxCalls

\* ncDelta is the change the call's own steps have made to digestNc
NoCall ==
    [kind |-> "", packets |-> <<>>, envelope |-> <<>>, attempt |-> 0, ncDelta |-> 0]

\* one POST as the device sees it
PostRebuilt(auth, body) == [auth |-> auth, body |-> buildEnvelope(<<>>)]

Post(auth, body) == [auth |-> auth, body |-> body]

NoResult == Returned(<<>>)

\* What the POST /jsonPTS route answers for the outcome of its
\* sendJsonPtsEnvelope call: res.json(raw), or the reply of its catch block
NoReply == [status |-> 0, error |-> FALSE, message |-> "", body |-> <<>>]

jsonPtsRouteRejects401(result) ==
    IF result.status = "ok" /\ ~result.value.unauthorized
    THEN [status |-> 200, error |-> FALSE, message |-> "", body |-> result.value]
    ELSE [status |-> 502, error |-> TRUE, message |-> "UNAUTHORIZED", body |-> <<>>]

jsonPtsRoute(result) ==
    IF result.status = "ok"
    THEN [status |-> 200, error |-> FALSE, message |-> "", body |-> result.value]
    ELSE CASE result.cls = "ZodError" ->
                [status |-> 400, error |-> TRUE, message |-> "BAD_REQUEST", body |-> <<>>]
           [] result.cls = "JsonPtsPacketError" ->
                [status |-> 502, error |-> TRUE, message |-> result.what, body |-> <<>>]
           [] result.cls = "Pts2TransportError" ->
                [status |-> IF result.what = "timeout" THEN 504 ELSE 502,
                 error |-> TRUE, message |-> "PTS_TRANSPORT_ERROR", body |-> <<>>]
           [] OTHER ->
                [status |-> 500, error |-> TRUE, message |-> result.what, body |-> <<>>]

NoLast ==
    [call |-> 0, kind |-> "", packets |-> <<>>, envelope |-> <<>>, posts |-> <<>>,
     answers |-> <<>>, ncDelta |-> 0, result |-> NoResult, reply |-> NoReply]

ClientInit ==
    /\ cfg \in ClientConfigs
    /\ dispatcher = Dispatcher(cfg)
    /\ digestNc = 0
    /\ pc = [c \in Calls |-> "idle"]
    /\ call = [c \in Calls |-> NoCall]
    /\ posts = [c \in Calls |-> <<>>]
    /\ answers = [c \in Calls |-> <<>>]
    /\ ncLog = <<>>
    /\ last = NoLast

CodecIdle ==
    /\ raw = RawEnvelope(JUndef, FALSE, <<>>)
    /\ req = <<>>
    /\ decoded = NoResult
    /\ outcome = NoResult
    /\ step = "idle"

NoOp == [name |-> "", packets |-> <<>>, raw |-> NonObject, www |-> NoWwwHeader, nc |-> 0]

OpsIdle ==
    /\ op = NoOp
    /\ opResult = NoResult
    /\ opStep = "idle"

BootIdle ==
    /\ env = NoEnv
    /\ loaded = NoResult
    /\ bootStep = "idle"

\* let cachedClientKey: string | undefined
NoKey == <<>>

NoServed == [status |-> "none", client |-> 0, config |-> <<>>, prev |-> 0, steady |-> FALSE]

ServerIdle ==
    /\ override = Unset
    /\ cachedClient = 0
    /\ cachedClientKey = NoKey
    /\ clients = <<>>
    /\ served = NoServed
    /\ steady = FALSE

Init == ClientInit /\ CodecIdle /\ OpsIdle /\ BootIdle /\ ServerIdle

\* ---------------------------------------------------------- client: actions
\* postWithAuth up to its first await: the first POST, with the Basic header
\* on a Basic client and without Authorization on a Digest client
Begin(c, kind, packets, envelope) ==
    /\ pc[c] = "idle"
    /\ pc' = [pc EXCEPT ![c] = "fetch"]
    /\ call' = [call EXCEPT ![c] = [NoCall EXCEPT !.kind = kind,
                                                   !.packets = packets,
                                                   !.envelope = envelope,
                                                   !.attempt = 1]]
    /\ posts' = [posts EXCEPT ![c] =
                   <<Post(IF cfg.auth = "basic" THEN basicAuthHeader ELSE NoAuthorization,
                          envelope)>>]
    /\ UNCHANGED <<cfg, dispatcher, digestNc, answers, ncLog, last, codecVars, opVars, bootVars, serverVars>>

\* execute(packets)
Execute(c) ==
    \E packets \in ClientRequests : Begin(c, "execute", packets, buildEnvelope(packets))

\* sendJsonPtsEnvelope(envelope)
SendJsonPtsEnvelope(c) ==
    \E envelope \in ClientEnvelopes : Begin(c, "send", <<>>, envelope)

\* The call ends after postJson settled with post and postWithAuth settled
\* with auth: execute decodes and correlates the value postWithAuth returned,
\* sendJsonPtsEnvelope returns it as it is; a throw propagates.  A
\* sendJsonPtsEnvelope call is answered by the POST /jsonPTS route.
Conclude(c, post, auth) ==
    /\ pc' = [pc EXCEPT ![c] = "done"]
    /\ call' = [call EXCEPT ![c] = NoCall]
    /\ posts' = [posts EXCEPT ![c] = <<>>]
    /\ answers' = [answers EXCEPT ![c] = <<>>]
    /\ last' = [call |-> c, kind |-> call[c].kind, packets |-> call[c].packets,
                envelope |-> call[c].envelope,
                posts |-> posts[c], answers |-> Append(answers[c], post),
                ncDelta |-> call[c].ncDelta,
                result |-> IF auth.status # "ok" THEN auth
                           ELSE IF call[c].kind = "execute"
                                THEN correlate(call[c].packets, auth.value)
                                ELSE Returned(auth.value),
                reply |-> IF call[c].kind = "send" THEN jsonPtsRoute(auth)
                          ELSE NoReply]
    /\ UNCHANGED <<cfg, dispatcher, digestNc, ncLog, codecVars, opVars, bootVars, serverVars>>

\* postWithAuth returns, or lets through, what its last postJson settled with
Finish(c, post) == Conclude(c, post, post)

\* hdrs.get("www-authenticate") on the headers of the first answer, and
\* parseDigestChallenge on the value: the challenge, or what is thrown
ReadChallenge(first) ==
    IF ~first.hasHeaders THEN Thrown("TypeError", "headers.get")
    ELSE IF HeaderMissing(first.www)
    THEN Thrown("Error", "401 without WWW-Authenticate header")
    ELSE IF ~IsDigestChallenge(first.www) THEN Thrown("Error", "Not a Digest challenge")
    ELSE Returned(parseDigestChallenge(first.www))

\* The Digest branch of postWithAuth after a first answer with a truthy
\* __unauthorized: read the challenge, count it, build the header and POST
\* again -- all before the next await.
Handshake(c, first) ==
    IF ReadChallenge(first).status # "ok"
    THEN Conclude(c, Returned(first), ReadChallenge(first))
    ELSE /\ digestNc' = NextNc(digestNc)
         /\ ncLog' = Append(ncLog, digestNc')
         /\ posts' = [posts EXCEPT ![c] =
               Append(@, Post(buildDigestAuthorization(ReadChallenge(first).value,
                                                       digestNc'),
                              call[c].envelope))]
         /\ answers' = [answers EXCEPT ![c] = Append(@, Returned(first))]
         /\ pc' = [pc EXCEPT ![c] = "fetch"]
         /\ call' = [call EXCEPT ![c].attempt = 2,
                                  ![c].ncDelta = @ + (digestNc' - digestNc)]
         /\ UNCHANGED <<cfg, dispatcher, last, codecVars, opVars, bootVars, serverVars>>

\* Only the first POST of a Digest call is followed by a handshake: the
\* retry's postJson result is returned to the caller as it is.
RetryAlways(attempt) == TRUE

RetryAllowed(attempt) == attempt = 1

\* if (this.cfg.auth === "basic") return this.postJson(body, { Authorization })
UsesDigestAlways(config) == TRUE

UsesDigest(config) == config.auth # "basic"

\* postJson settled with the outcome post; postWithAuth and its caller go on
Settle(c, post) ==
    IF /\ UsesDigest(cfg)
       /\ RetryAllowed(call[c].attempt)
       /\ post.status = "ok"
       /\ post.value.isObject
       /\ post.value.unauthorized
    THEN Handshake(c, post.value)
    ELSE Finish(c, post)

\* fetch rejects: a connection failure, or the abort the timer raised
FetchFails(c) ==
    /\ pc[c] = "fetch"
    /\ \E err \in FetchErrors : Settle(c, Pts2TransportError(err))

\* fetch resolves with status 401: postJson returns the sentinel
FetchUnauthorized(c) ==
    /\ pc[c] = "fetch"
    /\ \E www \in ClientChallenges : Settle(c, Returned(Sentinel(www)))

\* fetch resolves with another status: postJson awaits res.text()
FetchResponds(c) ==
    /\ pc[c] = "fetch"
    /\ pc' = [pc EXCEPT ![c] = "text"]
    /\ UNCHANGED <<cfg, dispatcher, digestNc, call, posts, answers, ncLog, last, codecVars, opVars, bootVars, serverVars>>

\* res.text() rejects: the timer aborted the exchange while the body was read
TextFails(c) ==
    /\ pc[c] = "text"
    /\ Settle(c, Thrown("AbortError", "aborted"))

\* What postJson settles with once res.text() has resolved: a status that
\* is not 2xx, a content type that is not JSON, a text JSON.parse rejects, or
\* a JSON value
TextOutcomes ==
    {Thrown("Error", "HTTP status"), Thrown("Error", "Non-JSON response"),
     Thrown("SyntaxError", "JSON.parse")}
        \cup {Returned(body) : body \in ClientBodies}

\* res.text() resolves: the status, content-type and JSON.parse checks.  The
\* status and the content type of res are read only here, so they are drawn
\* here.
TextArrives(c) ==
    /\ pc[c] = "text"
    /\ \E post \in TextOutcomes : Settle(c, post)

Next ==
    \E c \in Calls :
        \/ Execute(c)
        \/ SendJsonPtsEnvelope(c)
        \/ FetchFails(c)
        \/ FetchUnauthorized(c)
        \/ FetchResponds(c)
        \/ TextFails(c)
        \/ TextArrives(c)

Spec == Init /\ [][Next]_vars

\* Every pending exchange settles: fetch resolves or rejects, and the body
\* read resolves or rejects, at the latest when the timer postJson armed with
\* setTimeout(() => controller.abort(), timeoutMs) fires.
Answers(c) == FetchFails(c) \/ FetchUnauthorized(c) \/ FetchResponds(c)

BodySettles(c) == TextFails(c) \/ TextArrives(c)

SpecLive ==
    /\ Init
    /\ [][Next]_vars
    /\ \A c \in Calls : WF_vars(Answers(c)) /\ WF_vars(BodySettles(c))

\* ------------------------------------------------------ codec specification
\* One execute call seen from the value postWithAuth returned: the device
\* answer raw is decoded by parseEnvelope, then execute correlates it with the
\* request batch req.
CodecIds ==
    {JUndef, JNum(Whole(0)), JNum(Whole(1)), JNum(Whole(2)), JNum(3),
     JStr(<<"1">>), JStr(<<"1", "x">>), JStr(<<"x">>)}

CodecErrors == {JUndef, JBool(TRUE)}

CodecPackets ==
    {RawPacket(id, e, JUndef) : id \in CodecIds, e \in CodecErrors}
    \cup {RawPacket(JNum(Whole(0)), JBool(TRUE), JStr(<<"d">>))}

\* The Error values of the one-packet answers the coercion is exercised on
StrFalseUpper == <<"F", "A", "L", "S", "E">>
StrFalseMixed == <<"F", "a", "l", "s", "e">>

CodecErrorValues ==
    {JUndef, JNull, JBool(TRUE), JBool(FALSE),
     JStr(StrFalse), JStr(StrFalseUpper), JStr(StrFalseMixed), JStr(StrTrue),
     JStr(<<>>), JStr(<<"0">>), JStr(<<" ", "f", "a", "l", "s", "e">>),
     JNum(Whole(0)), JNum(Whole(1)),
     JArr(<<>>), JArr(<<JStr(StrFalse)>>), JObj(<<>>)}

CodecPacketSeqs == UNION {[1..n -> CodecPackets] : n \in 0..MaxRespPackets}

StrJsonPtsLower == <<"j", "s", "o", "n", "p", "t", "s">>

CodecRaws ==
    {RawEnvelope(JStr(StrJsonPTS), TRUE, pk) : pk \in CodecPacketSeqs}
    \cup {RawEnvelope(p, TRUE, pk) :
            p \in {JUndef, JNull, JStr(StrOther), JStr(StrJsonPtsLower)},
            pk \in {<<>>, <<RawPacket(JNum(Whole(0)), JUndef, JUndef)>>}}
    \cup {RawEnvelope(JStr(StrJsonPTS), TRUE, <<RawPacket(JNum(Whole(0)), e, JUndef)>>) :
            e \in CodecErrorValues}
    \cup {RawEnvelope(JStr(StrJsonPTS), FALSE, <<>>),
          RawEnvelope(JStr(StrJsonPTS), TRUE,
                      <<[RawPacket(JNum(Whole(0)), JUndef, JUndef) EXCEPT !.isRecord = FALSE]>>),
          Sentinel(NoWwwHeader), NonObject}

CodecRequests ==
    UNION {[1..n -> [type : {"GetDateTime"}, data : {JUndef}]] : n \in 0..MaxPackets}

ClientIdle ==
    /\ cfg \in {c \in ClientConfigs : c.auth = "digest"}
    /\ dispatcher = Dispatcher(cfg)
    /\ digestNc = 0
    /\ pc = [c \in Calls |-> "idle"]
    /\ call = [c \in Calls |-> NoCall]
    /\ posts = [c \in Calls |-> <<>>]
    /\ answers = [c \in Calls |-> <<>>]
    /\ ncLog = <<>>
    /\ last = NoLast

CodecInit ==
    /\ ClientIdle
    /\ OpsIdle
    /\ BootIdle
    /\ ServerIdle
    /\ raw \in CodecRaws
    /\ req \in CodecRequests
    /\ decoded = NoResult
    /\ outcome = NoResult
    /\ step = "start"

\* const parsed = parseEnvelope(raw)
Decode ==
    /\ step = "start"
    /\ decoded' = parseEnvelope(raw)
    /\ step' = "decoded"
    /\ UNCHANGED <<raw, req, outcome, clientVars, opVars, bootVars, serverVars>>

\* the rest of execute: correlation, then the packet-error check
Correlate ==
    /\ step = "decoded"
    /\ outcome' = correlate(req, raw)
    /\ step' = "executed"
    /\ UNCHANGED <<raw, req, decoded, clientVars, opVars, bootVars, serverVars>>

CodecNext == Decode \/ Correlate

SpecCodec == CodecInit /\ [][CodecNext]_vars

\* ------------------------------------------------- operations specification
\* The operations that are functions of their inputs, each applied once:
\* buildEnvelope; parseDigestChallenge followed by buildDigestAuthorization,
\* as postWithAuth chains them; getDateTime and reportGetPumpTransactions,
\* from the value postWithAuth returned to execute.
\* getDateTime: execute([{ type: "GetDateTime" }]), then the DateTime check
\* and the conversions of the three fields (dateTime is the string handed to
\* the Date constructor)
NeverMissing(data) == FALSE

MissingDateTime(data) == ~Truthy(Get(data, "DateTime"))

getDateTime(answer) ==
    LET r == correlate(GetDateTimeOnly, answer)
        pkt == r.value[1]
        data == IF pkt.data.t \in {"undef", "null"} THEN JObj(<<>>) ELSE pkt.data
    IN  IF r.status # "ok" THEN r
        ELSE IF MissingDateTime(data)
             THEN Thrown("Error", "Missing DateTime in response")
        ELSE Returned([dateTime |-> ToStr(Get(data, "DateTime")),
                       autoSynchronize |-> Truthy(Get(data, "AutoSynchronize")),
                       utcOffset |-> ParseInt(StringOr(Get(data, "UTCOffset"), <<"0">>))])

\* the packet reportGetPumpTransactions sends
ReportRequest(pump, from, to) ==
    <<[type |-> "ReportGetPumpTransactions",
       data |-> JObj(<<Prop("Pump", JNum(Whole(pump))),
                       Prop("DateTimeStart", JStr(from)),
                       Prop("DateTimeEnd", JStr(to))>>)]>>

\* Array.isArray(pkt.data)
AnyIsArray(data) == TRUE

IsArray(data) == data.t = "arr"

\* reportGetPumpTransactions: execute, then the data array or []
reportGetPumpTransactions(request, answer) ==
    LET r == correlate(request, answer)
        pkt == r.value[1]
    IN  IF r.status # "ok" THEN r
        ELSE IF ~IsArray(pkt.data) THEN Returned(JArr(<<>>))
        ELSE Returned(pkt.data)

\* const challenge = parseDigestChallenge(www); buildDigestAuthorization(...)
authorize(www, nc) ==
    IF ~IsDigestChallenge(www) THEN Thrown("Error", "Not a Digest challenge")
    ELSE Returned(buildDigestAuthorization(parseDigestChallenge(www), nc))

\* inputs
OpRequests ==
    UNION {[1..n -> [type : {"GetDateTime", "SetDateTime"},
                     data : {JUndef, JNull, JObj(<<Prop("UTCOffset", JNum(Whole(0)))>>)}]] :
             n \in 0..MaxPackets}

StrStamp == <<"2", "0", "2", "6">>

OpDateTimeData ==
    {JUndef, JNull, JObj(<<>>), JStr(StrStamp), JArr(<<>>), JNum(Whole(5)),
     JObj(<<Prop("DateTime", JStr(StrStamp))>>),
     JObj(<<Prop("DateTime", JStr(<<>>))>>),
     JObj(<<Prop("DateTime", JNull)>>),
     JObj(<<Prop("UTCOffset", JStr(<<"6", "0">>)), Prop("AutoSynchronize", JBool(TRUE))>>),
     JObj(<<Prop("DateTime", JStr(StrStamp)), Prop("UTCOffset", JStr(<<"6", "0">>)),
            Prop("AutoSynchronize", JBool(TRUE))>>),
     JObj(<<Prop("DateTime", JNum(Whole(7))), Prop("UTCOffset", JStr(<<"x">>))>>)}

OpReportData ==
    {JUndef, JNull, JObj(<<>>), JStr(StrStamp), JNum(Whole(0)), JBool(FALSE),
     JArr(<<>>),
     JArr(<<JObj(<<Prop("Pump", JNum(Whole(1)))>>)>>),
     JArr(<<JObj(<<Prop("Pump", JNum(Whole(1)))>>), JNull>>),
     JArr(<<JStr(StrStamp), JObj(<<Prop("Pump", JNum(Whole(1)))>>)>>)}

\* the device answers the two helpers are applied to: one packet with the
\* data, flagged or not, and answers execute rejects
OpAnswers(datas) ==
    {RawEnvelope(JStr(StrJsonPTS), TRUE, <<RawPacket(JNum(Whole(0)), e, d)>>) :
        e \in {JUndef, JBool(TRUE)}, d \in datas}
    \cup {RawEnvelope(JStr(StrJsonPTS), TRUE, <<>>),
          RawEnvelope(JStr(StrJsonPTS), TRUE, <<RawPacket(JNum(Whole(1)), JUndef, JUndef)>>),
          RawEnvelope(JStr(StrOther), TRUE, <<RawPacket(JNum(Whole(0)), JUndef, JUndef)>>),
          Sentinel(NoWwwHeader)}

StrDigestLower == <<"d", "i", "g", "e", "s", "t">>
StrDigestive == <<"D", "i", "g", "e", "s", "t", "i", "v", "e">>

OpQops ==
    {<<"auth">>, <<"auth-int", "auth">>, <<"auth-int">>, <<"">>, <<"", "auth-int">>,
     <<"auth", "auth-int">>}

\* WWW-Authenticate values: without attributes, with attributes but no qop,
\* and with a qop attribute
OpChallenges ==
    {WwwHeader(w, g, FALSE, <<>>) :
        w \in {StrDigest, StrDigestUpper, StrDigestLower, StrDigestive, StrBasic},
        g \in BOOLEAN}
    \cup {WwwHeader(w, TRUE, TRUE, q) :
            w \in {StrDigest, StrDigestUpper, StrBasic}, q \in OpQops}

OpsInit ==
    /\ ClientIdle
    /\ CodecIdle
    /\ BootIdle
    /\ ServerIdle
    /\ opResult = NoResult
    /\ opStep = "start"
    /\ \/ \E packets \in OpRequests :
             op = [NoOp EXCEPT !.name = "buildEnvelope", !.packets = packets]
       \/ \E www \in OpChallenges : \E nc \in 1..MaxNc :
             op = [NoOp EXCEPT !.name = "authorize", !.www = www, !.nc = nc]
       \/ \E answer \in OpAnswers(OpDateTimeData) :
             op = [NoOp EXCEPT !.name = "getDateTime", !.packets = GetDateTimeOnly,
                               !.raw = answer]
       \/ \E answer \in OpAnswers(OpReportData) :
             op = [NoOp EXCEPT !.name = "reportGetPumpTransactions",
                               !.packets = ReportRequest(1, StrStamp, StrStamp),
                               !.raw = answer]

Done(result) ==
    /\ opStep = "start"
    /\ opResult' = result
    /\ opStep' = "done"
    /\ UNCHANGED <<op, clientVars, codecVars, bootVars, serverVars>>

BuildEnvelope == op.name = "buildEnvelope" /\ Done(Returned(buildEnvelope(op.packets)))

Authorize == op.name = "authorize" /\ Done(authorize(op.www, op.nc))

GetDateTime == op.name = "getDateTime" /\ Done(getDateTime(op.raw))

ReportGetPumpTransactions ==
    /\ op.name = "reportGetPumpTransactions"
    /\ Done(reportGetPumpTransactions(op.packets, op.raw))

OpsNext == BuildEnvelope \/ Authorize \/ GetDateTime \/ ReportGetPumpTransactions

SpecOps == OpsInit /\ [][OpsNext]_vars

\* ---------------------------------------------- configuration specification
\* A process start: the environment is read, the configuration is validated,
\* the Client is constructed from it and the first calls are made.
BootHosts == {Unset, Var(<<>>), Var(<<"h">>)}
BootSecurities == {Unset, Var(StrHttp), Var(<<"H", "T", "T", "P", "S">>), Var(<<"f", "t", "p">>)}
BootHttpPorts == {Unset, Var(<<"0">>)}
BootHttpsPorts == {Unset, Var(<<"8", "4", "4", "3">>)}
BootAuths == {Unset, Var(<<"B", "a", "s", "i", "c">>), Var(<<"n", "o", "n", "e">>)}
BootLogins == {Unset, Var(<<"u">>)}
BootPasswords == {Unset, Var(<<"p">>)}
BootTimeouts == {Unset, Var(<<"-", "1">>)}
BootTlsFlags ==
    {Unset, Var(<<"0">>), Var(<<" ", "O", "N", " ">>), Var(StrFalse),
     Var(<<"m", "a", "y", "b", "e">>)}

BootEnvs ==
    [PTS2_HOST : BootHosts, PTS2_SECURITY : BootSecurities,
     PTS2_HTTP_PORT : BootHttpPorts, PTS2_HTTPS_PORT : BootHttpsPorts,
     PTS2_AUTH : BootAuths, PTS2_LOGIN : BootLogins, PTS2_PASSWORD : BootPasswords,
     PTS2_TIMEOUT_MS : BootTimeouts, PTS2_TLS_INSECURE : BootTlsFlags]

\* before the Client exists there is no configuration and no dispatcher
NoConfig ==
    [host |-> <<>>, security |-> "", httpPort |-> 0, httpsPort |-> 0, auth |-> "",
     login |-> <<>>, password |-> <<>>, timeoutMs |-> 0, tlsInsecure |-> FALSE]

BootInit ==
    /\ ServerIdle
    /\ env \in BootEnvs
    /\ loaded = NoResult
    /\ bootStep = "start"
    /\ cfg = NoConfig
    /\ dispatcher = "none"
    /\ digestNc = 0
    /\ pc = [c \in Calls |-> "idle"]
    /\ call = [c \in Calls |-> NoCall]
    /\ posts = [c \in Calls |-> <<>>]
    /\ answers = [c \in Calls |-> <<>>]
    /\ ncLog = <<>>
    /\ last = NoLast
    /\ CodecIdle
    /\ OpsIdle

\* const cfg = loadPts2ConfigFromEnv(process.env)
LoadConfig ==
    /\ bootStep = "start"
    /\ loaded' = loadPts2ConfigFromEnv(env)
    /\ bootStep' = "loaded"
    /\ UNCHANGED <<env, clientVars, codecVars, opVars, serverVars>>

\* new Pts2Client(cfg), reached only when loadPts2ConfigFromEnv returned
Construct ==
    /\ bootStep = "loaded"
    /\ loaded.status = "ok"
    /\ cfg' = loaded.value
    /\ dispatcher' = Dispatcher(cfg')
    /\ digestNc' = 0
    /\ bootStep' = "constructed"
    /\ UNCHANGED <<env, loaded, pc, call, posts, answers, ncLog, last, codecVars, opVars, serverVars>>

\* a call on the constructed Client issues its first POST
FirstPost(c) ==
    /\ bootStep = "constructed"
    /\ Execute(c) \/ SendJsonPtsEnvelope(c)

BootNext == LoadConfig \/ Construct \/ \E c \in Calls : FirstPost(c)

SpecBoot == BootInit /\ [][BootNext]_vars

\* ------------------------------------------------------------- REST server
\* The process environment of the server: PTS2_HOST set or not
ServerEnvs ==
    {[e EXCEPT !.PTS2_HOST = host] : e \in ClientEnvs, host \in {Unset, Var(<<"h">>)}}

\* The host values a PUT /api/pts2/host body carries
ServerHosts == {<<>>, <<"h">>, <<"g">>, <<"h", "/">>}

Letters ==
    {"a", "b", "c", "d", "e", "f", "g", "h", "i", "j", "k", "l", "m", "n", "o", "p",
     "q", "r", "s", "t", "u", "v", "w", "x", "y", "z"}

\* HostSchema: z.string().min(1).refine(v => /^[a-z0-9.-]+$/i.test(v))
HostSchemaAccepts(host) ==
    /\ Len(host) >= 1
    /\ \A i \in 1..Len(host) :
          \/ LowerChar(host[i]) \in Letters
          \/ IsDigit(host[i])
          \/ host[i] \in {".", "-"}

\* readHostOverride: the host of the override file, when the file exists and
\* holds a non-empty host
readHostOverride(file) == IF file.set /\ Len(file.v) >= 1 THEN file ELSE Unset

\* effectiveEnvWithOverrides: process.env with PTS2_HOST replaced by the
\* host of the override file, if any
effectiveEnvWithOverrides(e, file) ==
    IF readHostOverride(file).set THEN [e EXCEPT !.PTS2_HOST = readHostOverride(file)]
    ELSE e

\* JSON.stringify(cfg): the values of the configuration in the order the
\* schema lists its keys
Stringify(config) ==
    <<config.host, config.security, config.httpPort, config.httpsPort, config.auth,
      config.login, config.password, config.timeoutMs, config.tlsInsecure>>

\* the outcome of loadPts2ConfigFromEnv(effectiveEnvWithOverrides()) now
EffectiveConfig(file) == loadPts2ConfigFromEnv(effectiveEnvWithOverrides(env, file))

\* the effective configuration with the override file is the one the latest
\* getClient call saw
SameAsServed(file) ==
    /\ served.status = "ok"
    /\ EffectiveConfig(file) = Returned(served.config)

ServerInit ==
    /\ ClientIdle
    /\ CodecIdle
    /\ OpsIdle
    /\ env \in ServerEnvs
    /\ loaded = NoResult
    /\ bootStep = "idle"
    /\ override = Unset
    /\ cachedClient = 0
    /\ cachedClientKey = NoKey
    /\ clients = <<>>
    /\ served = NoServed
    /\ steady = FALSE

\* cachedClient && cachedClientKey === key
Reuses(key) == cachedClient # 0 /\ cachedClientKey = key

\* A route handler calls getClient(): the configuration is loaded from the
\* effective environment; the cached Client is returned when its key is the
\* key of that configuration, otherwise a Client is constructed and cached.
GetClient ==
    LET loadedNow == EffectiveConfig(override)
        key == Stringify(loadedNow.value)
    IN  /\ steady' = TRUE
        /\ IF loadedNow.status # "ok"
           THEN /\ served' = [status |-> "thrown", client |-> 0, config |-> <<>>,
                              prev |-> served.client, steady |-> steady]
                /\ UNCHANGED <<cachedClient, cachedClientKey, clients>>
           ELSE IF Reuses(key)
           THEN /\ served' = [status |-> "ok", client |-> cachedClient,
                              config |-> loadedNow.value,
                              prev |-> served.client, steady |-> steady]
                /\ UNCHANGED <<cachedClient, cachedClientKey, clients>>
           ELSE /\ Len(clients) < MaxClients
                /\ clients' = Append(clients, [cfg |-> loadedNow.value, digestNc |-> 0])
                /\ cachedClient' = Len(clients')
                /\ cachedClientKey' = key
                /\ served' = [status |-> "ok", client |-> cachedClient',
                              config |-> loadedNow.value,
                              prev |-> served.client, steady |-> steady]
        /\ UNCHANGED <<override, clientVars, codecVars, opVars, bootVars>>

\* PUT /api/pts2/host: a body the schema accepts is written to the override
\* file and the cache is reset; any other body is answered through handleError
PutHost ==
    \E host \in ServerHosts :
        IF HostSchemaAccepts(host)
        THEN /\ override' = Var(host)
             /\ cachedClient' = 0
             /\ cachedClientKey' = NoKey
             /\ steady' = (steady /\ SameAsServed(override'))
             /\ UNCHANGED <<clients, served, clientVars, codecVars, opVars, bootVars>>
        ELSE UNCHANGED vars

\* DELETE /api/pts2/host: the override file is removed and the cache is reset
DeleteHost ==
    /\ override' = Unset
    /\ cachedClient' = 0
    /\ cachedClientKey' = NoKey
    /\ steady' = (steady /\ SameAsServed(override'))
    /\ UNCHANGED <<clients, served, clientVars, codecVars, opVars, bootVars>>

\* The handler that obtained the Client makes a call on it, and the device
\* challenges the call: the nonce-count of that Client is incremented
ClientHandshake ==
    /\ served.status = "ok"
    /\ clients[served.client].cfg.auth = "digest"
    /\ clients[served.client].digestNc < MaxServerNc
    /\ clients' = [clients EXCEPT ![served.client].digestNc = NextNc(@)]
    /\ UNCHANGED <<override, cachedClient, cachedClientKey, served, steady,
                   clientVars, codecVars, opVars, bootVars>>

ServerNext == GetClient \/ PutHost \/ DeleteHost \/ ClientHandshake

SpecServer == ServerInit /\ [][ServerNext]_vars

\* ------------------------------------------------------------------ claims
\* the decoded packets are in ascending id order
SortedById(parsed) == \A i \in 1..(Len(parsed) - 1) : parsed[i].id <= parsed[i + 1].id

\* every position i of the decoded response holds the packet with id i
Correlated(parsed, packets) ==
    /\ Len(parsed) = Len(packets)
    /\ \A i \in 1..Len(parsed) : parsed[i].id = Whole(i - 1)

\* C6: execute returns only for a decoded response with as many packets as
\* the request and id = position everywhere; every other decoded response
\* makes it throw a correlation error, a count mismatch naming the number of
\* packets sent and the number received.
C6_CorrelationGuardsSuccess ==
    (step = "executed" /\ decoded.status = "ok") =>
        /\ (outcome.status = "ok" => Correlated(decoded.value, req))
        /\ (~Correlated(decoded.value, req) =>
              /\ outcome.status = "thrown"
              /\ outcome.cls = "Error"
              /\ outcome.what \in {"Packet count mismatch", "Packet id mismatch"})
        /\ (Len(decoded.value) # Len(req) =>
              /\ outcome.what = "Packet count mismatch"
              /\ outcome.sent = Len(req)
              /\ outcome.got = Len(decoded.value))

C6_Witness ==
    /\ step = "executed"
    /\ Len(req) = 1
    /\ decoded.status = "ok"
    /\ Len(decoded.value) = 2
    /\ outcome.what = "Packet count mismatch"
    /\ outcome.sent = 1
    /\ outcome.got = 2

\* C7: for a correctly correlated response with an error packet, execute
\* throws JsonPtsPacketError carrying, whole, the error packet with the lowest
\* id; it returns a sequence only when no packet of it has error = true.
C7_NoPartialSuccess ==
    (step = "executed" /\ decoded.status = "ok" /\ Correlated(decoded.value, req)) =>
        LET parsed == decoded.value
            bad == {i \in 1..Len(parsed) : parsed[i].error}
        IN  IF bad # {}
            THEN /\ outcome.status = "thrown"
                 /\ outcome.cls = "JsonPtsPacketError"
                 /\ \E i \in bad :
                      /\ outcome.value = parsed[i]
                      /\ \A j \in bad : parsed[i].id <= parsed[j].id
            ELSE /\ outcome.status = "ok"
                 /\ outcome.value = parsed
                 /\ \A i \in 1..Len(outcome.value) : ~outcome.value[i].error

C7_Witness ==
    /\ step = "executed"
    /\ Len(req) = 2
    /\ decoded.status = "ok"
    /\ Correlated(decoded.value, req)
    /\ \A i \in 1..2 : decoded.value[i].error
    /\ outcome.cls = "JsonPtsPacketError"
    /\ outcome.value.id = Whole(0)

\* a string that is a decimal integer literal
IsIntegerLiteral(str) ==
    LET body == IF str # <<>> /\ Head(str) \in {"-", "+"} THEN Tail(str) ELSE str
    IN  body # <<>> /\ \A i \in 1..Len(body) : IsDigit(body[i])

\* an Id that is an integer: an integral number or an integer literal
ValidIntegerId(v) ==
    \/ v.t = "num" /\ v.h % 2 = 0
    \/ v.t = "str" /\ IsIntegerLiteral(v.s)

\* C9: decoding throws whenever Protocol is missing or not exactly
\* "jsonPTS", Packets is not an array, or some packet lacks a valid integer Id.
C9_MalformedNeverAccepted ==
    (step # "start" /\
       (\/ raw.Protocol # JStr(StrJsonPTS)
        \/ ~raw.packetsIsArray
        \/ \E i \in 1..Len(raw.Packets) : ~ValidIntegerId(raw.Packets[i].Id)))
    => decoded.status = "thrown"

\* the permutations of 1..n
Perms(n) == {f \in [1..n -> 1..n] : \A i, j \in 1..n : f[i] = f[j] => i = j}

\* the same answer with its packets in the order perm
Reordered(r, perm) == [r EXCEPT !.Packets = [i \in 1..Len(r.Packets) |-> r.Packets[perm[i]]]]

DistinctIds(parsed) ==
    \A i, j \in 1..Len(parsed) : parsed[i].id = parsed[j].id => i = j

\* C10 as claimed: every accepted envelope decodes to a sequence sorted by id
\* that is the same for every order the device sends the packets in.
C10_ReorderInvariantAlways ==
    (step # "start" /\ decoded.status = "ok") =>
        /\ SortedById(decoded.value)
        /\ \A perm \in Perms(Len(raw.Packets)) :
             parseEnvelope(Reordered(raw, perm)) = decoded

\* C10 amended: every accepted envelope decodes to a sequence sorted by id;
\* when the decoded ids are pairwise distinct the sequence is the same for
\* every order the device sends the packets in.
C10_ReorderInvariantDistinctIds ==
    (step # "start" /\ decoded.status = "ok") =>
        /\ SortedById(decoded.value)
        /\ DistinctIds(decoded.value) =>
             \A perm \in Perms(Len(raw.Packets)) :
                 parseEnvelope(Reordered(raw, perm)) = decoded

C10_Witness ==
    /\ step = "decoded"
    /\ decoded.status = "ok"
    /\ Len(decoded.value) = 3
    /\ DistinctIds(decoded.value)
    /\ \A i \in 1..3 : decoded.value[i] = DecodePacket(raw.Packets[4 - i])

\* the coercion of an Error value as C11 states it
ClaimedError(v) ==
    CASE v.t = "bool" -> v.b
      [] v.t = "undef" -> FALSE
      [] v.t = "str" /\ ToLowerCase(v.s) = StrFalse -> FALSE
      [] OTHER -> TRUE

\* C11 as claimed: the decoded error flag of a packet is its Error field when
\* that is a boolean, FALSE when the field is absent or is the string "false"
\* in any letter case, and TRUE for every other present value.
C11_ErrorCoercion ==
    (step # "start" /\ decoded.status = "ok" /\ Len(raw.Packets) = 1) =>
        decoded.value[1].error = ClaimedError(raw.Packets[1].Error)

\* C25: when the decoded response violates the count or id correlation and
\* also holds a packet with error = true, execute throws the correlation
\* error -- the count mismatch before the id mismatch -- and never
\* JsonPtsPacketError.
C25_CorrelationBeforePacketError ==
    (/\ step = "executed"
     /\ decoded.status = "ok"
     /\ ~Correlated(decoded.value, req)
     /\ \E i \in 1..Len(decoded.value) : decoded.value[i].error)
    => /\ outcome.status = "thrown"
       /\ outcome.cls = "Error"
       /\ outcome.cls # "JsonPtsPacketError"
       /\ outcome.what =
            IF Len(decoded.value) # Len(req) THEN "Packet count mismatch"
            ELSE "Packet id mismatch"

C25_Witness ==
    /\ step = "executed"
    /\ decoded.status = "ok"
    /\ Len(req) = 2
    /\ Len(decoded.value) = 2
    /\ decoded.value[1].id = Whole(0)
    /\ decoded.value[1].error
    /\ decoded.value[2].id = Whole(2)
    /\ outcome.what = "Packet id mismatch"
    /\ outcome.index = 1

\* ------------------------------------------------- claims on the operations
\* C12: buildEnvelope of N requests is an envelope with Protocol "jsonPTS" and
\* N packets in the order of the requests; packet i (zero-based) has Id i, the
\* type of request i, and a Data field, equal to the request's data, exactly
\* when request i has data.
C12_EncodeAssignsPositions ==
    (opStep = "done" /\ op.name = "buildEnvelope") =>
        LET envelope == opResult.value
        IN  /\ opResult.status = "ok"
            /\ envelope.Protocol = <<"j", "s", "o", "n", "P", "T", "S">>
            /\ Len(envelope.Packets) = Len(op.packets)
            /\ \A i \in 1..Len(op.packets) :
                 /\ envelope.Packets[i].Id = i - 1
                 /\ envelope.Packets[i].Type = op.packets[i].type
                 /\ envelope.Packets[i].hasData <=> (op.packets[i].data.t # "undef")
                 /\ envelope.Packets[i].hasData =>
                       envelope.Packets[i].Data = op.packets[i].data

C12_Witness ==
    /\ opStep = "done"
    /\ op.name = "buildEnvelope"
    /\ Len(op.packets) = 2
    /\ op.packets[1].type = "SetDateTime"
    /\ op.packets[2].type = "GetDateTime"
    /\ opResult.value.Packets[1].hasData
    /\ ~opResult.value.Packets[2].hasData
    /\ opResult.value.Packets[2].Id = 1

\* the header value starts with the token Digest, in any letter case
StartsWithDigest(www) == ToLowerCase(www.word) = <<"d", "i", "g", "e", "s", "t">>

\* C17 as claimed: parsing a WWW-Authenticate value fails exactly when the
\* value does not start with the token Digest, in any letter case.
C17_DigestTokenDecides ==
    (opStep = "done" /\ op.name = "authorize") =>
        (opResult.status = "thrown" <=> ~StartsWithDigest(op.www))

\* the number a string of hexadecimal digits denotes
RECURSIVE HexValue(_)
HexValue(str) ==
    IF str = <<>> THEN 0
    ELSE 16 * HexValue(SubSeq(str, 1, Len(str) - 1))
         + (CHOOSE d \in 0..15 : HexDigits[d + 1] = str[Len(str)])

\* the tokens a qop attribute lists
Listed(qop) == {qop[i] : i \in 1..Len(qop)} \ {""}

\* C18: a header built for a challenge without qop has no qop, nc or cnonce
\* field and its digest is the hash of ha1:nonce:ha2; a header built with a
\* selected qop -- "auth" when the challenge lists it, else the first token
\* listed -- has all three fields, nc being the nonce-count as 8 hexadecimal
\* digits, and its digest is the hash of ha1:nonce:nc:cnonce:qop:ha2.
C18_QopDecidesHeaderShape ==
    (opStep = "done" /\ op.name = "authorize" /\ opResult.status = "ok") =>
        LET h == opResult.value
            listed == Listed(op.www.qop)
            first == CHOOSE i \in 1..Len(op.www.qop) :
                        /\ op.www.qop[i] # ""
                        /\ \A j \in 1..(i - 1) : op.www.qop[j] = ""
        IN  /\ ~op.www.hasQop =>
                 /\ h.qop = "" /\ h.nc = <<>> /\ ~h.cnonce
                 /\ h.response.parts = <<"ha1", "nonce", "ha2">>
            /\ (op.www.hasQop /\ listed # {}) =>
                 h.qop = IF "auth" \in listed THEN "auth" ELSE op.www.qop[first]
            /\ h.qop # "" =>
                 /\ h.cnonce
                 /\ Len(h.nc) = 8
                 /\ HexValue(h.nc) = op.nc
                 /\ h.response.parts = <<"ha1", "nonce", "nc", "cnonce", "qop", "ha2">>
                 /\ h.response.nc = h.nc
                 /\ h.response.qop = h.qop

C18_Witness ==
    /\ opStep = "done"
    /\ op.name = "authorize"
    /\ op.www.qop = <<"auth-int", "auth">>
    /\ op.nc = 17
    /\ opResult.status = "ok"
    /\ opResult.value.qop = "auth"
    /\ opResult.value.nc = <<"0", "0", "0", "0", "0", "0", "1", "1">>

\* the answer is a non-error GetDateTime / report response with one packet of
\* id 0
GoodAnswer(answer) ==
    /\ answer.Protocol = JStr(<<"j", "s", "o", "n", "P", "T", "S">>)
    /\ answer.packetsIsArray
    /\ Len(answer.Packets) = 1
    /\ answer.Packets[1].Id = JNum(0)
    /\ answer.Packets[1].Error.t = "undef"

\* the data of the answer's packet has no DateTime property
LacksDateTime(data) == \A i \in 1..Len(data.o) : data.o[i].k # "DateTime"

\* C19: getDateTime throws, and returns no timestamp, when the non-error,
\* correctly correlated response has no data or data without a DateTime field.
C19_MissingDateTimeFails ==
    (/\ opStep = "done"
     /\ op.name = "getDateTime"
     /\ GoodAnswer(op.raw)
     /\ LacksDateTime(op.raw.Packets[1].Data))
    => /\ opResult.status = "thrown"
       /\ opResult.cls = "Error"
       /\ opResult.what = "Missing DateTime in response"

C19_Witness ==
    /\ opStep = "done"
    /\ op.name = "getDateTime"
    /\ GoodAnswer(op.raw)
    /\ op.raw.Packets[1].Data.t = "obj"
    /\ Len(op.raw.Packets[1].Data.o) = 2
    /\ LacksDateTime(op.raw.Packets[1].Data)
    /\ opResult.what = "Missing DateTime in response"

\* C20: for a non-error, correctly correlated response,
\* reportGetPumpTransactions returns the data when it is an array and the
\* empty array when data is absent, null or anything else; it never throws.
C20_ReportDataOrEmpty ==
    (opStep = "done" /\ op.name = "reportGetPumpTransactions" /\ GoodAnswer(op.raw)) =>
        LET data == op.raw.Packets[1].Data
        IN  /\ opResult.status = "ok"
            /\ data.t = "arr" => opResult.value = data
            /\ data.t # "arr" => opResult.value = JArr(<<>>)

C20_Witness ==
    /\ opStep = "done"
    /\ op.name = "reportGetPumpTransactions"
    /\ GoodAnswer(op.raw)
    /\ op.raw.Packets[1].Data.t = "arr"
    /\ Len(op.raw.Packets[1].Data.a) = 2
    /\ opResult.value = op.raw.Packets[1].Data

\* ----------------------------------------------------- claims on the client
DigestQopAuth == WwwHeader(StrDigest, TRUE, TRUE, <<"auth">>)

\* the answer is the 401 sentinel of postJson
IsSentinel(answer) == answer.status = "ok" /\ answer.value.hasHeaders

\* the last call made a handshake and its authenticated retry did not end in
\* a 2xx JSON answer
RetryFailed(l) ==
    /\ Len(l.answers) = 2
    /\ (l.answers[2].status = "thrown" \/ IsSentinel(l.answers[2]))

\* C1: an execute call on a Digest client issues at most two POSTs; the
\* second one is issued by the step in which the first fetch resolves with
\* status 401, and no POST follows it.
C1_AtMostTwoPosts ==
    [][cfg.auth = "digest" =>
         \A c \in Calls :
            (call'[c].kind = "execute" \/ (last'.call = c /\ last'.kind = "execute")) =>
              /\ Len(posts'[c]) <= 2
              /\ Len(last'.posts) <= 2
              /\ (Len(posts'[c]) > Len(posts[c]) /\ Len(posts[c]) > 0) =>
                    /\ Len(posts[c]) = 1
                    /\ pc[c] = "fetch"
                    /\ IsSentinel(answers'[c][1])
              /\ (pc[c] = "fetch" /\ Len(posts[c]) = 2) =>
                    Len(posts'[c]) \in {0, 2}]_vars

C1_Witness ==
    /\ cfg.auth = "digest"
    /\ last.kind = "execute"
    /\ Len(last.posts) = 2
    /\ IsSentinel(last.answers[1])
    /\ IsSentinel(last.answers[2])

\* C2: on a Digest client whose only handshake so far is the one of this
\* call, execute([GetDateTime]) answered 401 with a Digest qop=auth challenge
\* and then 200 with a well-formed one-packet response returns that packet
\* after exactly two POSTs, the first without Authorization and the second
\* with a Digest Authorization whose nc is "00000001".
C2_HandshakeScenario ==
    (/\ cfg.auth = "digest"
     /\ last.kind = "execute"
     /\ last.packets = GetDateTimeOnly
     /\ Len(ncLog) = 1
     /\ last.answers = <<Returned(Sentinel(DigestQopAuth)), Returned(WellFormed(1, 0))>>)
    => /\ last.result.status = "ok"
       /\ Len(last.result.value) = 1
       /\ Len(last.posts) = 2
       /\ last.posts[1].auth = NoAuthorization
       /\ last.posts[2].auth.scheme = "Digest"
       /\ last.posts[2].auth.nc = <<"0", "0", "0", "0", "0", "0", "0", "1">>

C2_Witness ==
    /\ cfg.auth = "digest"
    /\ last.kind = "execute"
    /\ last.packets = GetDateTimeOnly
    /\ Len(ncLog) = 1
    /\ last.answers = <<Returned(Sentinel(DigestQopAuth)), Returned(WellFormed(1, 0))>>
    /\ last.result.status = "ok"

\* the Digest Authorization headers of the calls in flight
RetryHeaders == {<<c, posts[c][2].auth>> : c \in {d \in Calls : Len(posts[d]) = 2}}

\* C3: whatever the interleaving of the calls, no two handshakes of the
\* instance build their Authorization header from the same nc.
C3_NoSharedNc ==
    /\ \A i, j \in 1..Len(ncLog) : ncLog[i] = ncLog[j] => i = j
    /\ \A x, y \in RetryHeaders : x[2].ncArg = y[2].ncArg => x[1] = y[1]
    /\ Len(last.posts) = 2 =>
         \A x \in RetryHeaders : x[2].ncArg = last.posts[2].auth.ncArg => x[1] = last.call

C3_Witness ==
    /\ Len(ncLog) = 2
    /\ \E c, d \in Calls :
         /\ c # d
         /\ pc[c] = "fetch" /\ Len(posts[c]) = 2
         /\ pc[d] = "fetch" /\ Len(posts[d]) = 2

\* the step is the first answer of call c, a 401 with a parseable Digest
\* challenge
ChallengeArrives(c) ==
    /\ cfg.auth = "digest"
    /\ answers[c] = <<>>
    /\ Len(answers'[c]) = 1
    /\ IsSentinel(answers'[c][1])
    /\ IsDigestChallenge(answers'[c][1].value.www)

\* C4: the nonce-count starts at 0 and is never decreased or reset; a step
\* raises it, by exactly 1, exactly when a 401 with a parseable Digest
\* challenge arrives, so the k-th handshake of the instance is built from k.
C4_NonceCountCountsHandshakes ==
    /\ [](/\ digestNc = Len(ncLog)
          /\ \A k \in 1..Len(ncLog) : ncLog[k] = k)
    /\ [][/\ digestNc' \in {digestNc, digestNc + 1}
          /\ (digestNc' = digestNc + 1) <=> (\E c \in Calls : ChallengeArrives(c))]_vars

C4_Witness ==
    /\ digestNc = 2
    /\ ncLog = <<1, 2>>
    /\ Len(last.posts) = 2
    /\ last.posts[2].auth.ncArg = 2
    /\ last.posts[2].auth.nc = <<"0", "0", "0", "0", "0", "0", "0", "2">>

\* C5 as claimed: a call whose authenticated retry did not succeed has not
\* changed the nonce-count.
C5_FailedRetryNotCounted ==
    (cfg.auth = "digest" /\ RetryFailed(last)) => last.ncDelta = 0

\* C5 amended: the nonce-count is raised when the retry is built, whatever
\* becomes of the retry: a call whose authenticated retry did not succeed has
\* raised the nonce-count by exactly 1, and the count is not taken back.
C5_FailedRetryCounted ==
    (cfg.auth = "digest" /\ RetryFailed(last)) =>
        /\ last.ncDelta = 1
        /\ last.posts[2].auth.ncArg >= 1
        /\ digestNc >= last.posts[2].auth.ncArg

C5_Witness ==
    /\ cfg.auth = "digest"
    /\ RetryFailed(last)
    /\ last.answers[2].status = "thrown"
    /\ last.answers[2].cls = "Pts2TransportError"
    /\ last.ncDelta = 1
    /\ digestNc = 1

\* C8: an execute call whose two POSTs are both answered 401 throws an error
\* that is neither a JsonPtsPacketError nor a Pts2TransportError, returns no
\* packets, and ends with the second 401: no call in flight has had two
\* answers.
C8_SecondUnauthorizedIsPlainError ==
    /\ \A c \in Calls : Len(answers[c]) <= 1
    /\ (/\ cfg.auth = "digest"
        /\ last.kind = "execute"
        /\ Len(last.answers) >= 2
        /\ IsSentinel(last.answers[1])
        /\ IsSentinel(last.answers[2]))
       => /\ last.result.status = "thrown"
          /\ last.result.cls \notin {"JsonPtsPacketError", "Pts2TransportError"}
          /\ last.result.value = <<>>
          /\ Len(last.posts) = 2
          /\ Len(last.answers) = 2

C8_Witness ==
    /\ cfg.auth = "digest"
    /\ last.kind = "execute"
    /\ Len(last.answers) = 2
    /\ IsSentinel(last.answers[1])
    /\ IsSentinel(last.answers[2])
    /\ last.result.cls = "ZodError"

\* C13: on a Basic client no call ever has more than one POST, every POST
\* carries the Basic Authorization header, no call goes on after its first
\* answer -- a 401 included -- and the nonce-count is never touched.
C13_BasicSinglePost ==
    cfg.auth = "basic" =>
        /\ digestNc = 0
        /\ \A c \in Calls :
             /\ Len(posts[c]) <= 1
             /\ answers[c] = <<>>
             /\ \A i \in 1..Len(posts[c]) : posts[c][i].auth.scheme = "Basic"
        /\ last.call # 0 =>
             /\ Len(last.posts) = 1
             /\ last.posts[1].auth.scheme = "Basic"
             /\ Len(last.answers) = 1

C13_Witness ==
    /\ cfg.auth = "basic"
    /\ last.call # 0
    /\ IsSentinel(last.answers[1])
    /\ Len(last.posts) = 1
    /\ last.posts[1].auth.scheme = "Basic"

\* the POST ended because the timer aborted the exchange: fetch or
\* res.text() rejected with the AbortError of the abort signal
TimerAborted(answer) ==
    /\ answer.status = "thrown"
    /\ \/ answer.cls = "AbortError"
       \/ answer.cls = "Pts2TransportError" /\ answer.value.name = "AbortError"

\* C14 as claimed: every POST the timer aborted, while fetch was pending or
\* while the body was being read, ends with a Pts2TransportError of kind
\* "timeout".
C14_TimeoutIsTransportTimeout ==
    \A i \in 1..Len(last.answers) :
        TimerAborted(last.answers[i]) =>
            /\ last.answers[i].cls = "Pts2TransportError"
            /\ last.answers[i].what = "timeout"

\* C21: every POST of a sendJsonPtsEnvelope call has the caller's envelope as
\* its body; the call is dispatched as execute is -- the Basic header on a
\* Basic client, no Authorization and then Digest after a 401 on a Digest
\* client -- and it settles with exactly what that dispatch settled with: a
\* JSON answer is returned as it is, neither decoded nor correlated nor checked
\* for packet errors, and the only throws are those of the POST itself and of
\* the Digest branch reading the challenge of an answer marked __unauthorized.
C21_SendForwardsUnchanged ==
    /\ \A c \in Calls :
         call[c].kind = "send" =>
            \A i \in 1..Len(posts[c]) : posts[c][i].body = call[c].envelope
    /\ last.kind = "send" =>
         /\ \A i \in 1..Len(last.posts) : last.posts[i].body = last.envelope
         /\ last.posts[1].auth.scheme = IF cfg.auth = "basic" THEN "Basic" ELSE "none"
         /\ Len(last.posts) = 2 =>
               /\ cfg.auth = "digest"
               /\ IsSentinel(last.answers[1])
               /\ last.posts[2].auth.scheme = "Digest"
         /\ Len(last.answers) = Len(last.posts)
         /\ last.answers[Len(last.answers)].status = "thrown" =>
               last.result = last.answers[Len(last.answers)]
         /\ (last.answers[Len(last.answers)].status = "ok"
              /\ ~last.answers[Len(last.answers)].value.unauthorized) =>
               last.result = last.answers[Len(last.answers)]
         /\ last.result.status = "ok" =>
               last.result = last.answers[Len(last.answers)]
         /\ last.result.status = "thrown" =>
               /\ last.result.cls \notin {"JsonPtsPacketError", "ZodError"}
               /\ last.result.what \notin {"Packet count mismatch", "Packet id mismatch",
                                            "Protocol mismatch",
                                            "Response packet missing Id"}
               /\ \/ last.result = last.answers[Len(last.answers)]
                  \/ /\ cfg.auth = "digest"
                     /\ Len(last.posts) = 1
                     /\ last.answers[1].status = "ok"
                     /\ last.answers[1].value.unauthorized

C21_Witness ==
    /\ last.kind = "send"
    /\ Len(last.posts) = 2
    /\ last.posts[1].body = last.envelope
    /\ last.posts[2].body = last.envelope
    /\ last.posts[2].auth.scheme = "Digest"
    /\ last.answers[2] = Returned(WellFormed(1, 1))
    /\ last.result = Returned(WellFormed(1, 1))

\* the first POST of the call was answered, and the answer was not a 401
\* carrying a Digest challenge
NoChallengeAnswered(l) ==
    /\ Len(l.answers) >= 1
    /\ \/ ~IsSentinel(l.answers[1])
       \/ ~l.answers[1].value.www.present
       \/ ~StartsWithDigest(l.answers[1].value.www)

\* C24: on a Digest client a call whose first POST is answered by anything
\* but a 401 with a Digest challenge -- a non-401 answer, a transport error,
\* a 401 without WWW-Authenticate, a 401 with another scheme -- has issued
\* exactly one POST and has not changed the nonce-count; the 401 without
\* header and the 401 with another scheme make the call throw.
C24_NoChallengeNoCount ==
    (cfg.auth = "digest" /\ last.call # 0 /\ NoChallengeAnswered(last)) =>
        /\ Len(last.posts) = 1
        /\ Len(last.answers) = 1
        /\ last.ncDelta = 0
        /\ (IsSentinel(last.answers[1]) /\ ~last.answers[1].value.www.present) =>
              /\ last.result.status = "thrown"
              /\ last.result.cls = "Error"
              /\ last.result.what = "401 without WWW-Authenticate header"
        /\ (IsSentinel(last.answers[1]) /\ last.answers[1].value.www.present) =>
              /\ last.result.status = "thrown"
              /\ last.result.what = "Not a Digest challenge"

C24_Witness ==
    /\ cfg.auth = "digest"
    /\ digestNc = 1
    /\ Len(last.posts) = 1
    /\ IsSentinel(last.answers[1])
    /\ last.answers[1].value.www.present
    /\ ~StartsWithDigest(last.answers[1].value.www)
    /\ last.ncDelta = 0
    /\ last.result.what = "Not a Digest challenge"

\* the call ended with a 401: the only POST of a Basic client, the
\* authenticated retry of a Digest client
FinalUnauthorized(l) ==
    /\ Len(l.answers) = (IF cfg.auth = "basic" THEN 1 ELSE 2)
    /\ IsSentinel(l.answers[Len(l.answers)])

\* C26: a sendJsonPtsEnvelope call that ends with a 401 does not throw: it
\* returns the unauthorized sentinel of postJson, and the POST /jsonPTS route
\* answers that with res.json, status 200, not through its catch block.
C26_FinalUnauthorizedReturned ==
    (last.kind = "send" /\ FinalUnauthorized(last)) =>
        /\ last.result.status = "ok"
        /\ last.result.value = last.answers[Len(last.answers)].value
        /\ last.result.value.unauthorized
        /\ last.reply.status = 200
        /\ ~last.reply.error
        /\ last.reply.body = last.result.value

C26_Witness ==
    /\ cfg.auth = "digest"
    /\ last.kind = "send"
    /\ Len(last.answers) = 2
    /\ IsSentinel(last.answers[1])
    /\ IsSentinel(last.answers[2])
    /\ last.result.status = "ok"
    /\ last.reply.status = 200

\* the call c is an execute call with an exchange pending
Executing(c) == call[c].kind = "execute" /\ pc[c] \in {"fetch", "text"}

\* the number of awaits the call c can still be suspended at
Rank(c) ==
    CASE pc[c] = "fetch" -> IF call[c].attempt = 1 THEN 4 ELSE 2
      [] pc[c] = "text" -> IF call[c].attempt = 1 THEN 3 ELSE 1
      [] OTHER -> 0

\* C23: when every pending exchange settles, every execute call that has
\* started completes, and it does not loop: each step of the call leaves it
\* with strictly fewer awaits ahead, at most four in all.
C23_ExecuteCompletes ==
    /\ \A c \in Calls : Executing(c) ~> (pc[c] = "done")
    /\ [][\A c \in Calls :
            (Executing(c) /\ <<pc[c], call[c], posts[c]>>' # <<pc[c], call[c], posts[c]>>)
                => Rank(c)' < Rank(c)]_vars

C23_Witness ==
    /\ last.kind = "execute"
    /\ pc[last.call] = "done"
    /\ Len(last.posts) = 2
    /\ \E c \in Calls : Executing(c) /\ call[c].attempt = 2

\* ---------------------------------------------------- claims on the server
\* C22 as claimed: when the effective configuration has not changed since the
\* previous getClient call, getClient returns the Client that call returned,
\* with its nonce-count; and the Client getClient returns was built from the
\* configuration in effect at the call.
C22_SameClientWhileUnchanged ==
    /\ (served.status = "ok" /\ served.prev # 0 /\ served.steady) =>
            served.client = served.prev
    /\ served.status = "ok" => clients[served.client].cfg = served.config

\* ------------------------------------------------ claims on configuration
\* the environment sets the TLS-insecure flag to a word that means true
ExplicitlyInsecure(e) ==
    /\ e.PTS2_TLS_INSECURE.set
    /\ ToLowerCase(Trim(e.PTS2_TLS_INSECURE.v)) \in
         {<<"1">>, <<"t", "r", "u", "e">>, <<"y", "e", "s">>, <<"y">>, <<"o", "n">>}

\* C15 as claimed: a constructed Client skips certificate validation only
\* when its security scheme is https and the environment explicitly disables
\* TLS verification; with the flag unset the Client validates certificates.
C15_InsecureOnlyWhenExplicit ==
    (bootStep = "constructed" /\ dispatcher = "insecure") =>
        /\ cfg.security = "https"
        /\ ExplicitlyInsecure(env)

\* C16 as claimed: a configuration whose host, login or password is empty is
\* rejected when it is loaded; no Client is constructed from it and no POST is
\* issued with it.
C16_EmptyFieldsAreFatal ==
    LET empty == \/ EnvOr(env.PTS2_HOST, <<>>) = <<>>
                 \/ EnvOr(env.PTS2_LOGIN, <<>>) = <<>>
                 \/ EnvOr(env.PTS2_PASSWORD, <<>>) = <<>>
    IN  (bootStep # "start" /\ empty) =>
            /\ loaded.status = "thrown"
            /\ bootStep # "constructed"
            /\ \A c \in Calls : posts[c] = <<>>

====
